---------------------------- MODULE Spec2Model ----------------------------
(***************************************************************************)
(* A model of chatterino_logs.py: the file-name parser, the line           *)
(* classifier, parse_log and parse_from_dir.                               *)
(*                                                                         *)
(* A text is a sequence of one-character strings.  The regular             *)
(* expressions of the program are modelled by what re.match does with      *)
(* them (anchoring, greedy and lazy groups, "." not matching a newline,    *)
(* "$" matching before a final newline), strptime by the fields it         *)
(* accepts, and the exceptions by tagged outcomes.                         *)
(***************************************************************************)
EXTENDS Integers, Sequences, FiniteSets, TLC

(***************************************************************************)
(* Characters                                                              *)
(***************************************************************************)
DigitChars == <<"0", "1", "2", "3", "4", "5", "6", "7", "8", "9">>

LetterChars ==
    {"a", "b", "c", "d", "e", "f", "g", "h", "i", "j", "k", "l", "m",
     "n", "o", "p", "q", "r", "s", "t", "u", "v", "w", "x", "y", "z",
     "A", "B", "C", "D", "E", "F", "G", "H", "I", "J", "K", "L", "M",
     "N", "O", "P", "Q", "R", "S", "T", "U", "V", "W", "X", "Y", "Z"}

\* \d
Digits == {DigitChars[i] : i \in 1..Len(DigitChars)}

IsDigit(c) == c \in Digits

\* \w
WordChars == Digits \cup LetterChars \cup {"_"}

IsWord(c) == c \in WordChars

\* \s, and the characters str.rstrip() removes (those of them that a
\* string of the module can hold; Python's also count \v and the Unicode
\* spaces)
SpaceChars == {" ", "\t", "\n", "\r", "\f"}

IsSpace(c) == c \in SpaceChars

\* [:0-9]
TimeChars == Digits \cup {":"}

\* int() of one digit
DigitVal(c) == (CHOOSE i \in 1..Len(DigitChars) : DigitChars[i] = c) - 1

\* int() of a run of digits
RECURSIVE ToInt(_)
ToInt(s) ==
    IF s = <<>> THEN 0
    ELSE 10 * ToInt(SubSeq(s, 1, Len(s) - 1)) + DigitVal(s[Len(s)])

AllDigits(s) == \A i \in 1..Len(s) : IsDigit(s[i])

\* the text from position i to the end
From(s, i) == SubSeq(s, i, Len(s))

\* ".*$": up to the end of the text, or up to a newline that ends the text
DotStarEnd(s) ==
    LET n == Len(s)
        body == IF n > 0 /\ s[n] = "\n" THEN SubSeq(s, 1, n - 1) ELSE s
    IN  IF \A i \in 1..Len(body) : body[i] # "\n"
        THEN [ok |-> TRUE, text |-> body]
        ELSE [ok |-> FALSE, text |-> <<>>]

\* the end of the longest run of characters of the class cs that starts at
\* position i (i - 1 when there is none)
RunEnd(s, i, cs) ==
    LET stops == {j \in i..Len(s) : s[j] \notin cs}
    IN  IF stops = {} THEN Len(s)
        ELSE (CHOOSE j \in stops : \A k \in stops : j <= k) - 1

\* str.rstrip(): the text without its trailing whitespace
RECURSIVE rstrip(_)
rstrip(s) ==
    IF s # <<>> /\ IsSpace(s[Len(s)])
    THEN rstrip(SubSeq(s, 1, Len(s) - 1))
    ELSE s

(***************************************************************************)
(* strptime and the datetime constructors                                  *)
(***************************************************************************)
IsLeap(y) == (y % 4 = 0 /\ y % 100 # 0) \/ y % 400 = 0

DaysIn(y, m) ==
    IF m = 2 THEN (IF IsLeap(y) THEN 29 ELSE 28)
    ELSE IF m \in {4, 6, 9, 11} THEN 30 ELSE 31

\* StrptimeTime with the 12-hour field %I in the place of %H: hours 01-12
StrptimeTime12h(s) ==
    LET h  == ToInt(SubSeq(s, 1, 2))
        mi == ToInt(SubSeq(s, 4, 5))
        sec == ToInt(SubSeq(s, 7, 8))
    IN  IF h >= 1 /\ h <= 12 /\ mi <= 59 /\ sec <= 59
        THEN [ok |-> TRUE, time |-> <<h % 12, mi, sec>>]
        ELSE [ok |-> FALSE, time |-> <<>>]

\* datetime.strptime(s, "%H:%M:%S").time() of a text dd:dd:dd.  The format
\* takes hours 00-23, minutes 00-59 and seconds 00-61; datetime() then
\* refuses a second above 59.  Either refusal is a ValueError.
StrptimeTime(s) ==
    LET h  == ToInt(SubSeq(s, 1, 2))
        mi == ToInt(SubSeq(s, 4, 5))
        sec == ToInt(SubSeq(s, 7, 8))
    IN  IF h <= 23 /\ mi <= 59 /\ sec <= 61 /\ sec <= 59
        THEN [ok |-> TRUE, time |-> <<h, mi, sec>>]
        ELSE [ok |-> FALSE, time |-> <<>>]

\* datetime.strptime(s, "%Y-%m-%d").date() of a text dddd-dd-dd.  The
\* format takes months 01-12 and days 01-31; datetime() then refuses year
\* 0 and a day the month does not have.  Either refusal is a ValueError.
StrptimeDate(s) ==
    LET y == ToInt(SubSeq(s, 1, 4))
        m == ToInt(SubSeq(s, 6, 7))
        d == ToInt(SubSeq(s, 9, 10))
    IN  IF /\ m >= 1 /\ m <= 12 /\ d >= 1 /\ d <= 31
           /\ y >= 1 /\ d <= DaysIn(y, m)
        THEN [ok |-> TRUE, date |-> <<y, m, d>>]
        ELSE [ok |-> FALSE, date |-> <<>>]

\* datetime.datetime.combine(date, time)
Combine(date, time) == [date |-> date, time |-> time]

(***************************************************************************)
(* The line patterns                                                       *)
(***************************************************************************)
\* dd:dd:dd at positions i .. i+7
IsClock(s, i) ==
    /\ Len(s) >= i + 7
    /\ IsDigit(s[i]) /\ IsDigit(s[i + 1]) /\ s[i + 2] = ":"
    /\ IsDigit(s[i + 3]) /\ IsDigit(s[i + 4]) /\ s[i + 5] = ":"
    /\ IsDigit(s[i + 6]) /\ IsDigit(s[i + 7])

NoMatch == [matched |-> FALSE]

\* re.match(r"^\[(\d{2}:\d{2}:\d{2})\]\s{2}(\w+):\s(.*)$", line)
LogLineMatch(line) ==
    IF /\ Len(line) >= 12
       /\ line[1] = "["
       /\ IsClock(line, 2)
       /\ line[10] = "]"
       /\ IsSpace(line[11]) /\ IsSpace(line[12])
    THEN LET k == RunEnd(line, 13, WordChars)
         IN  IF /\ k >= 13
                /\ Len(line) >= k + 2
                /\ line[k + 1] = ":"
                /\ IsSpace(line[k + 2])
                /\ DotStarEnd(From(line, k + 3)).ok
             THEN [matched |-> TRUE,
                   g1 |-> SubSeq(line, 2, 9),
                   g2 |-> SubSeq(line, 13, k),
                   g3 |-> DotStarEnd(From(line, k + 3)).text]
             ELSE NoMatch
    ELSE NoMatch

\* AnnouncementMatch with the colon left out of the bracket's class:
\* r"^\[[0-9]+\](\s{1})\w+.*$"
AnnouncementMatchNoColon(line) ==
    /\ Len(line) >= 1
    /\ line[1] = "["
    /\ LET k == RunEnd(line, 2, Digits)
       IN  /\ k >= 2
           /\ Len(line) >= k + 3
           /\ line[k + 1] = "]"
           /\ IsSpace(line[k + 2])
           /\ IsWord(line[k + 3])
           /\ DotStarEnd(From(line, k + 4)).ok

\* re.match(r"^\[[:0-9]+\](\s{1})\w+.*$", line)
AnnouncementMatch(line) ==
    /\ Len(line) >= 1
    /\ line[1] = "["
    /\ LET k == RunEnd(line, 2, TimeChars)
       IN  /\ k >= 2
           /\ Len(line) >= k + 3
           /\ line[k + 1] = "]"
           /\ IsSpace(line[k + 2])
           /\ IsWord(line[k + 3])
           /\ DotStarEnd(From(line, k + 4)).ok

\* re.match(r"^(#).*$", line)
CommentMatch(line) ==
    /\ Len(line) >= 1
    /\ line[1] = "#"
    /\ DotStarEnd(From(line, 2)).ok

(***************************************************************************)
(* _parse_line                                                             *)
(***************************************************************************)
Returned(ts, user, msg) ==
    [kind |-> "Message", ts |-> ts, user |-> user, msg |-> msg]

Raised(exc) == [kind |-> exc]

\* _parse_line with strptime's ValueError caught and raised again as a
\* ParseLineException
_parse_line_conflated(date, line) ==
    LET match == LogLineMatch(line)
    IN  IF ~match.matched
        THEN IF AnnouncementMatch(line) THEN Raised("NonMessageLineException")
             ELSE IF CommentMatch(line) THEN Raised("NonMessageLineException")
             ELSE Raised("ParseLineException")
        ELSE LET time_obj == StrptimeTime(match.g1)
             IN  IF ~time_obj.ok THEN Raised("ParseLineException")
                 ELSE Returned(Combine(date, time_obj.time), match.g2, match.g3)

_parse_line(date, line) ==
    LET match == LogLineMatch(line)
    IN  IF ~match.matched
        THEN IF AnnouncementMatch(line) THEN Raised("NonMessageLineException")
             ELSE IF CommentMatch(line) THEN Raised("NonMessageLineException")
             ELSE Raised("ParseLineException")
        ELSE LET time_obj == StrptimeTime(match.g1)
             IN  IF ~time_obj.ok THEN Raised("ValueError")
                 ELSE Returned(Combine(date, time_obj.time), match.g2, match.g3)


(***************************************************************************)
(* _file_name_components                                                   *)
(***************************************************************************)
\* os.path.basename(path): the text after the last "/"
basename(path) ==
    LET slashes == {i \in 1..Len(path) : path[i] = "/"}
    IN  IF slashes = {} THEN path
        ELSE From(path, (CHOOSE i \in slashes : \A j \in slashes : j <= i) + 1)

\* r"-(\d{4}-\d{2}-\d{2})\.log$" from position i: the suffix ends the text,
\* or ends it but for a final newline
DateSuffixAt(s, i) ==
    /\ Len(s) >= i + 14
    /\ s[i] = "-"
    /\ AllDigits(SubSeq(s, i + 1, i + 4)) /\ s[i + 5] = "-"
    /\ AllDigits(SubSeq(s, i + 6, i + 7)) /\ s[i + 8] = "-"
    /\ AllDigits(SubSeq(s, i + 9, i + 10))
    /\ SubSeq(s, i + 11, i + 14) = <<".", "l", "o", "g">>
    /\ \/ Len(s) = i + 14
       \/ Len(s) = i + 15 /\ s[i + 15] = "\n"

\* re.match(r"^(.+?)-(\d{4}-\d{2}-\d{2})\.log$", name): the lazy group takes
\* the shortest non-empty, newline-free prefix after which the rest matches
FileNameMatch(name) ==
    LET splits == {k \in 1..Len(name) :
                      /\ \A i \in 1..k : name[i] # "\n"
                      /\ DateSuffixAt(name, k + 1)}
    IN  IF splits = {} THEN NoMatch
        ELSE LET k == CHOOSE x \in splits : \A y \in splits : x <= y
             IN  [matched |-> TRUE,
                  g1 |-> SubSeq(name, 1, k),
                  g2 |-> SubSeq(name, k + 2, k + 11)]

_file_name_components(path) ==
    LET match == FileNameMatch(basename(path))
    IN  IF ~match.matched THEN Raised("FileNameFormatException")
        ELSE LET date == StrptimeDate(match.g2)
             IN  IF ~date.ok THEN Raised("ValueError")
                 ELSE [kind |-> "ok", stream_name |-> match.g1,
                       date |-> date.date]

(***************************************************************************)
(* sorted(): the order of str, by code point                               *)
(***************************************************************************)
Ascii ==
    <<
      " ", "!", "#", "$", "%", "&", "'", "(", ")", "*", "+",
      ",", "-", ".", "/", "0", "1", "2", "3", "4", "5", "6", "7",
      "8", "9", ":", ";", "<", "=", ">", "?", "@", "A", "B", "C",
      "D", "E", "F", "G", "H", "I", "J", "K", "L", "M", "N", "O",
      "P", "Q", "R", "S", "T", "U", "V", "W", "X", "Y", "Z", "[",
      "]", "^", "_", "a", "b", "c", "d", "e", "f", "g",
      "h", "i", "j", "k", "l", "m", "n", "o", "p", "q", "r", "s",
      "t", "u", "v", "w", "x", "y", "z", "{", "|", "}", "~"
    >>

\* the place of a printable character among the code points (Ascii lists
\* them in code-point order, the double quote, the backslash and the backquote left out)
CodePoint(c) == CHOOSE i \in 1..Len(Ascii) : Ascii[i] = c

\* a < b for str
StrLess(a, b) ==
    \E i \in 1..(Len(b)) :
        /\ \A j \in 1..(i - 1) : j <= Len(a) /\ a[j] = b[j]
        /\ \/ Len(a) = i - 1
           \/ Len(a) >= i /\ CodePoint(a[i]) < CodePoint(b[i])

\* x put into the sorted list l, after the elements not greater than it
RECURSIVE Insert(_, _)
Insert(l, x) ==
    IF l = <<>> THEN <<x>>
    ELSE IF StrLess(x, l[1]) THEN <<x>> \o l
    ELSE <<l[1]>> \o Insert(Tail(l), x)

RECURSIVE SortList(_)
SortList(l) ==
    IF l = <<>> THEN <<>>
    ELSE Insert(SortList(SubSeq(l, 1, Len(l) - 1)), l[Len(l)])

\* sorted(l) left out: the paths in the order os.listdir gave them
unsorted(l) == l

\* sorted(l) of a list of paths
sorted(l) == SortList(l)

(***************************************************************************)
(* The inputs: directory entries and the raw lines of the files            *)
(***************************************************************************)
\* a conforming name: a-2023-01-02.log
NameA ==
    <<"a", "-", "2", "0", "2", "3", "-", "0", "1", "-", "0", "2",
      ".", "l", "o", "g">>

\* a conforming name that sorts after NameA and carries an earlier date: b-2023-01-01.log
NameB ==
    <<"b", "-", "2", "0", "2", "3", "-", "0", "1", "-", "0", "1",
      ".", "l", "o", "g">>

\* a name that does not match the pattern: readme.txt
NameReadme ==
    <<"r", "e", "a", "d", "m", "e", ".", "t", "x", "t">>

\* a name that matches the pattern and names no calendar date: a-2023-13-01.log
NameMonth13 ==
    <<"a", "-", "2", "0", "2", "3", "-", "1", "3", "-", "0", "1",
      ".", "l", "o", "g">>

\* the name of a subdirectory: c-2023-01-01.log
NameSubdir ==
    <<"c", "-", "2", "0", "2", "3", "-", "0", "1", "-", "0", "1",
      ".", "l", "o", "g">>

\* a message: [03:25:34]  user23: lol\n
LineLol ==
    <<"[", "0", "3", ":", "2", "5", ":", "3", "4", "]", " ", " ",
      "u", "s", "e", "r", "2", "3", ":", " ", "l", "o", "l",
      "\n">>

\* a message whose text ends in a space: [23:59:59]  v_2: a b \n
LineTrailing ==
    <<"[", "2", "3", ":", "5", "9", ":", "5", "9", "]", " ", " ",
      "v", "_", "2", ":", " ", "a", " ", "b", " ", "\n">>

\* a message whose text is empty: [03:25:34]  user23: \n
LineEmptyText ==
    <<"[", "0", "3", ":", "2", "5", ":", "3", "4", "]", " ", " ",
      "u", "s", "e", "r", "2", "3", ":", " ", "\n">>

\* a message line with minute 61: [03:61:34]  user23: lol\n
LineMinute61 ==
    <<"[", "0", "3", ":", "6", "1", ":", "3", "4", "]", " ", " ",
      "u", "s", "e", "r", "2", "3", ":", " ", "l", "o", "l",
      "\n">>

\* an announcement: [17:20:11] Announcement\n
LineAnnouncement ==
    <<"[", "1", "7", ":", "2", "0", ":", "1", "1", "]", " ", "A",
      "n", "n", "o", "u", "n", "c", "e", "m", "e", "n", "t",
      "\n">>

\* a line of no known format: garbage\n
LineGarbage ==
    <<"g", "a", "r", "b", "a", "g", "e", "\n">>

\* the regular files a directory may hold
FileNames == {NameA, NameB, NameReadme, NameMonth13}

\* the subdirectories a directory may hold
DirNames == {NameSubdir}

\* the raw lines a file may hold, each with its line terminator
Lines ==
    {LineLol, LineTrailing, LineEmptyText, LineMinute61, LineAnnouncement,
     LineGarbage}

\* the longest file, in lines
MaxLines == 2

\* the directory parse_from_dir is called with
DirPath == <<"d">>

(***************************************************************************)
(* State                                                                   *)
(***************************************************************************)
VARIABLES
    dirents,    \* the directory: entry name -> TRUE for a regular file
    content,    \* path of an opened file -> the raw lines read from it so far
    pc,         \* where parse_from_dir (and parse_log inside it) stands
    files,      \* parse_from_dir: the sorted list of paths
    fi,         \* parse_from_dir: the index in files of the loop's file
    frames,     \* parse_from_dir: the frames collected
    date,       \* parse_log: the date of the file name
    rows,       \* parse_log: the rows collected
    handles,    \* the paths of the file handles that are open
    opened,     \* every path open() was called with, in order
    stderr,     \* what was printed to sys.stderr
    stdout,     \* what was printed to sys.stdout
    result,     \* what parse_from_dir returned
    exc,        \* the exception that left parse_from_dir
    arg_date,   \* _parse_line called alone: its date
    arg_line,   \* _parse_line called alone: its line
    ret         \* _parse_line called alone: its outcome

dirvars ==
    <<dirents, content, pc, files, fi, frames, date, rows, handles, opened,
      stderr, stdout, result, exc>>

linevars == <<arg_date, arg_line, ret>>

vars == <<dirvars, linevars>>

None == [kind |-> "None"]

(***************************************************************************)
(* Library calls                                                           *)
(***************************************************************************)
\* os.path.join(path, f)
join(path, f) == path \o <<"/">> \o f

\* os.path.isfile(os.path.join(path, f)) for an entry f of the directory
isfile(f) == dirents[f]

\* [os.path.join(path, f) for f in listing if os.path.isfile(...)]
RECURSIVE RegularPaths(_)
RegularPaths(listing) ==
    IF listing = <<>> THEN <<>>
    ELSE (IF isfile(listing[1]) THEN <<join(DirPath, listing[1])>> ELSE <<>>)
         \o RegularPaths(Tail(listing))

\* the orders in which os.listdir may list the entries
Listings ==
    LET names == DOMAIN dirents
        n == Cardinality(names)
    IN  {l \in [1..n -> names] : \A i, j \in 1..n : l[i] = l[j] => i = j}

\* pd.DataFrame(rows, columns=["ts", "user", "msg"])
DataFrame(rs) == rs

\* pd.concat(fs, ignore_index=True) of a list that is not empty
RECURSIVE concat(_)
concat(fs) == IF fs = <<>> THEN <<>> ELSE fs[1] \o concat(Tail(fs))

\* the row of a returned _LineComponents
Row(r) == [ts |-> r.ts, user |-> r.user, msg |-> r.msg]

\* open() without the with block and without close(): nothing is released
WithExitLeak(hs, path) == hs

\* leaving the with block of parse_log, by its end or by an exception,
\* closes the file
WithExit(hs, path) == hs \ {path}

(***************************************************************************)
(* parse_from_dir and parse_log                                            *)
(***************************************************************************)
LineIdle == arg_date = <<>> /\ arg_line = <<>> /\ ret = None

Init ==
    /\ \E regular \in SUBSET FileNames, dirs \in SUBSET DirNames :
          dirents = [f \in regular \cup dirs |-> f \in regular]
    /\ content = <<>>
    /\ pc = "listdir"
    /\ files = <<>>
    /\ fi = 0
    /\ frames = <<>>
    /\ date = <<>>
    /\ rows = <<>>
    /\ handles = {}
    /\ opened = <<>>
    /\ stderr = <<>>
    /\ stdout = <<>>
    /\ result = None
    /\ exc = None
    /\ LineIdle

\* lines 23-31: list the directory, keep the regular files, sort the paths
ListDir ==
    /\ pc = "listdir"
    /\ \E listing \in Listings : files' = sorted(RegularPaths(listing))
    /\ frames' = <<>>
    /\ fi' = 1
    /\ pc' = "loop"
    /\ UNCHANGED <<dirents, content, date, rows, handles, opened, stderr,
                   stdout, result, exc, linevars>>

\* lines 34-36, 59, 38-43: parse_log's _file_name_components raises
\* FileNameFormatException, which the loop catches
SkipFile ==
    /\ pc = "loop" /\ fi <= Len(files)
    /\ _file_name_components(files[fi]).kind = "FileNameFormatException"
    /\ stderr' = Append(stderr, [skipped |-> files[fi]])
    /\ fi' = fi + 1
    /\ UNCHANGED <<dirents, content, pc, files, frames, date, rows, handles,
                   opened, stdout, result, exc, linevars>>

\* lines 34-36, 59, 190: strptime's ValueError is no FileNameFormatException
\* and leaves parse_log and parse_from_dir
FileNameValueError ==
    /\ pc = "loop" /\ fi <= Len(files)
    /\ _file_name_components(files[fi]).kind = "ValueError"
    /\ exc' = Raised("ValueError")
    /\ pc' = "raised"
    /\ UNCHANGED <<dirents, content, files, fi, frames, date, rows, handles,
                   opened, stderr, stdout, result, linevars>>

\* lines 34-36, 59-62: the name parses; parse_log has its date
EnterParseLog ==
    /\ pc = "loop" /\ fi <= Len(files)
    /\ _file_name_components(files[fi]).kind = "ok"
    /\ date' = _file_name_components(files[fi]).date
    /\ rows' = <<>>
    /\ pc' = "open"
    /\ UNCHANGED <<dirents, content, files, fi, frames, handles, opened,
                   stderr, stdout, result, exc, linevars>>

\* line 65: open(path, "r")
OpenFile ==
    /\ pc = "open"
    /\ handles' = handles \cup {files[fi]}
    /\ opened' = Append(opened, files[fi])
    /\ content' = (files[fi] :> <<>>) @@ content
    /\ pc' = "read"
    /\ UNCHANGED <<dirents, files, fi, frames, date, rows, stderr, stdout,
                   result, exc, linevars>>

\* lines 66-74: the file yields its next line, which is stripped and parsed.
\* What a file holds is for the file system to say: the line is any of
\* Lines, and content keeps what was read.
ReadLine ==
    /\ pc = "read"
    /\ Len(content[files[fi]]) < MaxLines
    /\ \E raw \in Lines :
          LET line == rstrip(raw)
              r == _parse_line(date, line)
          IN  /\ content' = [content EXCEPT ![files[fi]] = Append(@, raw)]
              /\ rows' = IF r.kind = "Message" THEN Append(rows, Row(r))
                         ELSE rows
              /\ stdout' = IF r.kind = "ParseLineException"
                           THEN Append(stdout,
                                       [path |-> files[fi], line |-> line])
                           ELSE stdout
              /\ handles' = IF r.kind = "ValueError"
                            THEN WithExit(handles, files[fi])
                            ELSE handles
              /\ exc' = IF r.kind = "ValueError" THEN Raised("ValueError")
                        ELSE exc
              /\ pc' = IF r.kind = "ValueError" THEN "raised" ELSE "read"
    /\ UNCHANGED <<dirents, files, fi, frames, date, opened, stderr, result,
                   linevars>>

\* lines 66, 77, 37: the file is exhausted; the with block ends, parse_log
\* returns its frame and the loop appends it
EndOfFile ==
    /\ pc = "read"
    /\ handles' = WithExit(handles, files[fi])
    /\ frames' = Append(frames, DataFrame(rows))
    /\ fi' = fi + 1
    /\ pc' = "loop"
    /\ UNCHANGED <<dirents, content, files, date, rows, opened, stderr,
                   stdout, result, exc, linevars>>

\* line 46: pd.concat of at least one frame
ConcatReturn ==
    /\ pc = "loop" /\ fi > Len(files)
    /\ frames # <<>>
    /\ result' = concat(frames)
    /\ pc' = "returned"
    /\ UNCHANGED <<dirents, content, files, fi, frames, date, rows, handles,
                   opened, stderr, stdout, exc, linevars>>

\* line 46: pd.concat of no frame raises ValueError ("No objects to
\* concatenate")
ConcatRaise ==
    /\ pc = "loop" /\ fi > Len(files)
    /\ frames = <<>>
    /\ exc' = Raised("ValueError")
    /\ pc' = "raised"
    /\ UNCHANGED <<dirents, content, files, fi, frames, date, rows, handles,
                   opened, stderr, stdout, result, linevars>>

Next ==
    \/ ListDir
    \/ SkipFile
    \/ FileNameValueError
    \/ EnterParseLog
    \/ OpenFile
    \/ ReadLine
    \/ EndOfFile
    \/ ConcatReturn
    \/ ConcatRaise

Spec == Init /\ [][Next]_vars

(***************************************************************************)
(* _parse_line called alone, as its tests call it                          *)
(***************************************************************************)
\* how a line may begin: a bracketed clock (in or out of range, or with a
\* digit missing), a comment sign, or nothing
Heads ==
    {<<"[", "0", "3", ":", "2", "5", ":", "3", "4", "]">>,
     <<"[", "2", "3", ":", "5", "9", ":", "5", "9", "]">>,
     <<"[", "0", "0", ":", "0", "0", ":", "0", "0", "]">>,
     <<"[", "2", "4", ":", "0", "0", ":", "0", "0", "]">>,
     <<"[", "0", "3", ":", "6", "1", ":", "3", "4", "]">>,
     <<"[", "0", "3", ":", "2", "5", ":", "6", "0", "]">>,
     <<"[", "3", ":", "2", "5", ":", "3", "4", "]">>,
     <<"#">>,
     <<>>}

\* what may follow the bracket
Gaps ==
    {<<>>,
     <<" ">>,
     <<" ", " ">>,
     <<" ", " ", " ">>,
     <<" ", "\t">>}

\* what may stand in the place of the user name
Users ==
    {<<>>,
     <<"u", "s", "e", "r", "2", "3">>,
     <<"v", "_", "2">>,
     <<"!", "u">>}

\* what may stand between the user name and the text
Seps ==
    {<<":", " ">>,
     <<":">>,
     <<" ">>,
     <<":", "\t">>}

\* the characters of a text
TextChars == {"a", " ", "!", ":"}

\* the longest text, in characters
MaxText == 3

Texts == UNION {[1..n -> TextChars] : n \in 0..MaxText}

\* the reference dates
Dates == {<<2023, 5, 13>>, <<2024, 2, 29>>}

DirIdle ==
    /\ dirents = <<>> /\ content = <<>> /\ pc = "idle" /\ files = <<>>
    /\ fi = 0 /\ frames = <<>> /\ date = <<>> /\ rows = <<>>
    /\ handles = {} /\ opened = <<>> /\ stderr = <<>> /\ stdout = <<>>
    /\ result = None /\ exc = None

InitLine ==
    /\ arg_date \in Dates
    /\ \E h \in Heads, g \in Gaps, u \in Users, p \in Seps, t \in Texts :
          arg_line = h \o g \o u \o p \o t
    /\ ret = None
    /\ DirIdle

\* lines 109-144: one call of _parse_line(arg_date, arg_line)
ParseLineCall ==
    /\ pc = "idle"
    /\ ret = None
    /\ ret' = _parse_line(arg_date, arg_line)
    /\ UNCHANGED <<dirvars, arg_date, arg_line>>

NextLine == ParseLineCall

SpecLine == InitLine /\ [][NextLine]_vars

(***************************************************************************)
(* What the claims speak of                                                *)
(***************************************************************************)
Range(f) == {f[i] : i \in DOMAIN f}

Last(l) == l[Len(l)]

\* a number below 100 printed with two digits
TwoDigits(n) == <<DigitChars[(n \div 10) + 1], DigitChars[(n % 10) + 1]>>

\* a line with only its line terminator removed
StripTerminator(raw) ==
    IF raw # <<>> /\ Last(raw) = "\n" THEN SubSeq(raw, 1, Len(raw) - 1)
    ELSE raw

\* [dd:dd:dd] at the start of a line
BracketedClock(line) ==
    /\ Len(line) >= 10
    /\ line[1] = "[" /\ line[4] = ":" /\ line[7] = ":" /\ line[10] = "]"
    /\ \A i \in {2, 3, 5, 6, 8, 9} : IsDigit(line[i])

\* the 24-hour times a bracketed clock can be read as
ClockReadings(line) ==
    {h \in 0..23 : TwoDigits(h) = SubSeq(line, 2, 3)}
    \X {m \in 0..59 : TwoDigits(m) = SubSeq(line, 5, 6)}
    \X {x \in 0..59 : TwoDigits(x) = SubSeq(line, 8, 9)}

\* the positions at which a user name that starts at 13 may end: a run of
\* word characters with a colon and then a character of sp behind it
UserEnds(line, sp) ==
    {k \in 13..(Len(line) - 2) :
        /\ \A i \in 13..k : IsWord(line[i])
        /\ line[k + 1] = ":"
        /\ line[k + 2] \in sp}

\* the ways to read a line as [HH:MM:SS], two spaces, user, colon, space
\* and text, with HH:MM:SS a time of day
MessageReadings(line) ==
    IF BracketedClock(line) /\ Len(line) >= 12
       /\ line[11] = " " /\ line[12] = " "
    THEN {[time |-> t, user |-> SubSeq(line, 13, k),
           text |-> From(line, k + 3)] :
             t \in ClockReadings(line), k \in UserEnds(line, {" "})}
    ELSE {}

\* the line has the shape of the message pattern, whatever its clock says
MessageShaped(line) ==
    /\ BracketedClock(line) /\ Len(line) >= 12
    /\ IsSpace(line[11]) /\ IsSpace(line[12])
    /\ UserEnds(line, SpaceChars) # {}

\* the regular files of the directory
Regular == {f \in DOMAIN dirents : dirents[f]}

PathOf(f) == join(DirPath, f)

Terminated == pc \in {"returned", "raised"}

\* the files with a conforming name, in ascending order of their names,
\* and the dates their names carry
AcceptedOrder == SelectSeq(<<NameA, NameB>>, LAMBDA f : f \in Regular)

DateOfName(f) == IF f = NameA THEN <<2023, 1, 2>> ELSE <<2023, 1, 1>>

\* the records of the lines read from file f, in line order: one for each
\* line that the classifier, handed the stripped line, takes for a message
RECURSIVE RecordsOfLines(_, _)
RecordsOfLines(d, ls) ==
    IF ls = <<>> THEN <<>>
    ELSE LET r == _parse_line(d, rstrip(ls[1]))
         IN  (IF r.kind = "Message" THEN <<Row(r)>> ELSE <<>>)
             \o RecordsOfLines(d, Tail(ls))

RecordsOfFile(f) ==
    IF PathOf(f) \in DOMAIN content
    THEN RecordsOfLines(DateOfName(f), content[PathOf(f)])
    ELSE <<>>

RECURSIVE RecordsOfFiles(_)
RecordsOfFiles(fs) ==
    IF fs = <<>> THEN <<>>
    ELSE RecordsOfFile(fs[1]) \o RecordsOfFiles(Tail(fs))

SkipReports(f) == {i \in 1..Len(stderr) : stderr[i].skipped = PathOf(f)}

(***************************************************************************)
(* The claims                                                              *)
(***************************************************************************)
\* C1: in parse_log, a line that matches the message pattern and carries
\* an out-of-range time is reported and skipped, and parsing goes on: once
\* a file with a conforming name has yielded a message and then the
\* minute-61 line, the run has not raised, the line is reported, and the
\* record of the message before it is still held.
C1LineErrorStaysInFile ==
    \A p \in DOMAIN content :
        (Len(content[p]) >= 2 /\ content[p][1] = LineLol
            /\ content[p][2] = LineMinute61)
        => /\ pc # "raised"
           /\ \E i \in 1..Len(stdout) : stdout[i].path = p
           /\ (files[fi] = p /\ pc = "read" => Len(rows) >= 1)

\* C2: parse_from_dir on a directory with no regular file, or with none
\* but files rejected for their names, does not raise, and what it returns
\* is the empty sequence.
C2EmptyDirReturnsEmpty ==
    Regular \subseteq {NameReadme}
    => /\ pc # "raised"
       /\ (pc = "returned" => result = <<>>)

\* C3: whenever parse_from_dir has ended on a directory that holds
\* readme.txt beside files with conforming names only, it has returned,
\* readme.txt was never opened, exactly one skip diagnostic names it,
\* every conforming file was opened, and the result is the records of the
\* conforming files.
C3NonConformingSkipped ==
    (/\ NameReadme \in Regular
     /\ Regular \subseteq {NameReadme, NameA, NameB}
     /\ Terminated)
    => /\ pc = "returned"
       /\ PathOf(NameReadme) \notin Range(opened)
       /\ Cardinality(SkipReports(NameReadme)) = 1
       /\ \A i \in 1..Len(AcceptedOrder) :
             PathOf(AcceptedOrder[i]) \in Range(opened)
       /\ result = RecordsOfFiles(AcceptedOrder)

\* The part of C3 that is the skip's own: readme.txt is never opened, no
\* more than one skip diagnostic names it, and a run that returns gave
\* exactly one and a result made of the conforming files' records.
SkipIsLocalToFile ==
    NameReadme \in Regular
    => /\ PathOf(NameReadme) \notin Range(opened)
       /\ Cardinality(SkipReports(NameReadme)) <= 1
       /\ (pc = "returned"
             => /\ Cardinality(SkipReports(NameReadme)) = 1
                /\ result = RecordsOfFiles(AcceptedOrder))

\* C4: a file whose name fails file-name parsing, be it a name that matches
\* the pattern and names month 13, does not make parse_from_dir raise: the
\* run never ends raised at the file a-2023-13-01.log.
C4NameErrorStaysInScan ==
    ~(/\ pc = "raised"
      /\ fi \in 1..Len(files)
      /\ files[fi] = PathOf(NameMonth13))

C6MessageLineParsed ==
    ret # None
    => \A m \in MessageReadings(arg_line) :
          ret = [kind |-> "Message",
                 ts |-> [date |-> arg_date, time |-> m.time],
                 user |-> m.user,
                 msg |-> m.text]

\* C6 witness: a message of 2024-02-29 at 23:59:59 whose text has a space
\* and punctuation inside was returned.
C6Witness ==
    /\ ret # None
    /\ MessageReadings(arg_line) # {}
    /\ ret.kind = "Message"
    /\ ret.msg = <<"a", " ", "!">>
    /\ ret.ts = [date |-> <<2024, 2, 29>>, time |-> <<23, 59, 59>>]

\* C7 as stated: a line that starts with [HH:MM:SS], exactly one space and
\* then anything but a second space is classified NonMessage, whatever the
\* character after the space.
C7SingleSpaceAnyChar ==
    (/\ ret # None
     /\ BracketedClock(arg_line) /\ Len(arg_line) >= 12
     /\ arg_line[11] = " " /\ arg_line[12] # " ")
    => ret = Raised("NonMessageLineException")

\* C7 as amended: a line that starts with [HH:MM:SS], exactly one space and
\* then a word character is classified NonMessage: it is never returned as
\* a message and never Malformed.
C7SingleSpaceWordChar ==
    (/\ ret # None
     /\ BracketedClock(arg_line) /\ Len(arg_line) >= 12
     /\ arg_line[11] = " " /\ IsWord(arg_line[12]))
    => ret = Raised("NonMessageLineException")

\* C7 witness: a line [03:61:34], one space, user23 ... was classified
\* NonMessage.
C7Witness ==
    /\ ret = Raised("NonMessageLineException")
    /\ Len(arg_line) >= 17
    /\ SubSeq(arg_line, 1, 17) =
          <<"[", "0", "3", ":", "6", "1", ":", "3", "4", "]", " ",
            "u", "s", "e", "r", "2", "3">>

\* C8: for a line that has the shape of the message pattern and whose
\* HH:MM:SS is no time of day, _parse_line returns no record and fails
\* with a ValueError, which is neither the NonMessage signal nor the
\* Malformed-line failure.
C8BadClockIsValueError ==
    (/\ ret # None
     /\ MessageShaped(arg_line)
     /\ ClockReadings(arg_line) = {})
    => /\ ret = Raised("ValueError")
       /\ ret.kind \notin {"Message", "NonMessageLineException",
                           "ParseLineException"}

\* C8 witness: [03:25:60], two spaces, user23, colon, space ... failed with
\* a ValueError.
C8Witness ==
    /\ ret = Raised("ValueError")
    /\ MessageShaped(arg_line)
    /\ SubSeq(arg_line, 1, 10) =
          <<"[", "0", "3", ":", "2", "5", ":", "6", "0", "]">>

\* C9: parse_log removes only the line terminator before it classifies a
\* line: whenever the line just read, its terminator removed, is a
\* message, the last row collected is that message, its text whole, and
\* nothing was reported for it.
C9OnlyTerminatorStripped ==
    (pc = "read" /\ content[files[fi]] # <<>>)
    => LET raw == Last(content[files[fi]])
           want == _parse_line(date, StripTerminator(raw))
       IN  want.kind = "Message"
           => /\ rows # <<>>
              /\ Last(rows) = Row(want)
              /\ \A i \in 1..Len(stdout) :
                    stdout[i].line # rstrip(raw)

\* C10: at most one file handle is open at any moment, none is open when
\* the next file is about to be opened, and none is open when
\* parse_from_dir has returned or an error has left it.
C10OneHandleAtATime ==
    /\ Cardinality(handles) <= 1
    /\ (pc \in {"loop", "open"} => handles = {})
    /\ (Terminated => handles = {})
    /\ (pc = "read" => handles = {files[fi]})

\* C10 witness: a second file was opened and an error raised while reading
\* it left parse_from_dir.
C10Witness ==
    /\ pc = "raised"
    /\ Len(opened) = 2
    /\ content[opened[2]] # <<>>
    /\ Last(content[opened[2]]) = LineMinute61

=============================================================================
